---- MODULE Spec2Model ----
(***************************************************************************)
(* Model of the YouTube download tool: the facade YouTubeDLTool.execute    *)
(* (youtube_tool.py) and the adapter VideoLoader (core.py).                *)
(*                                                                         *)
(* Strings are sequences of tokens (a directory part such as "/tmp/", a    *)
(* name such as "clip", an extension such as ".mp4"); the string           *)
(* operations of the code (startswith, replace, Path.stem, expanduser,     *)
(* absolute, the / operator) are computed token by token.                  *)
(* Python's None is the one-token string None; a key missing from the      *)
(* input dict is Absent for the boolean keys and None for the others       *)
(* (input.get(k) returns None for a missing key).                          *)
(***************************************************************************)
EXTENDS Integers, Sequences, FiniteSets, TLC

\* ------------------------------------------------------------------ bounds
\* how many files the output directory holds when the tool is constructed
MaxLeftover == 1

\* ------------------------------------------------------------ python values
None == <<"<None>">>
Absent == "<absent>"

\* bool(v) for a string or None
Truthy(v) == v # None /\ v # <<>>

\* bool(v) for the value of a boolean input key
IsTrue(b) == b = "True"

\* ------------------------------------------------------------------- paths
SchemeToks == {"http://", "https://", "www."}
AbsDirToks == {"/tmp/", "/out/", "/home/u/", "/cwd/"}
DirToks == AbsDirToks \cup {"~/", "./"}
ExtToks == {".mp4", ".webm", ".mkv", ".flv", ".mp3", ".m4a", ".opus", ".wav", ".jpg"}

HomeDir == <<"/home/u/">>
Cwd == <<"/cwd/">>

\* PurePath parsing: "." components are dropped
RECURSIVE Normalise(_)
Normalise(s) ==
    IF s = <<>> THEN <<>>
    ELSE IF Head(s) = "./" THEN Normalise(Tail(s))
    ELSE <<Head(s)>> \o Normalise(Tail(s))

\* Path(s): the parsed path
PathOf(s) == Normalise(s)

\* Path.expanduser()
ExpandUser(p) == IF p # <<>> /\ Head(p) = "~/" THEN HomeDir \o Tail(p) ELSE p

IsAbsolute(p) == p # <<>> /\ Head(p) \in AbsDirToks

\* Path.absolute()
Absolute(p) == IF IsAbsolute(p) THEN p ELSE Cwd \o p

\* a / b
Join(a, b) == IF IsAbsolute(b) THEN b ELSE a \o b

\* index of the last directory token of p, 0 when there is none
RECURSIVE LastDir(_, _)
LastDir(p, i) ==
    IF i = 0 THEN 0
    ELSE IF p[i] \in DirToks THEN i
    ELSE LastDir(p, i - 1)

\* Path.name: the final component
PathName(p) == SubSeq(p, LastDir(p, Len(p)) + 1, Len(p))

\* Path.suffix: the last extension of the name, unless the name starts with it
PathSuffix(p) ==
    LET n == PathName(p)
    IN  IF Len(n) > 1 /\ n[Len(n)] \in ExtToks THEN <<n[Len(n)]>> ELSE <<>>

\* Path.stem: the name without its suffix
PathStem(p) ==
    LET n == PathName(p)
    IN  SubSeq(n, 1, Len(n) - Len(PathSuffix(p)))

\* str.replace(old, new) for a one-token old and new
RECURSIVE StrReplace(_, _, _)
StrReplace(s, old, new) ==
    IF s = <<>> THEN <<>>
    ELSE <<IF Head(s) = old THEN new ELSE Head(s)>> \o StrReplace(Tail(s), old, new)

\* str.startswith(prefixes)
StartsWith(s, prefixes) == s # <<>> /\ Head(s) \in prefixes


\* -------------------------------------------------------------- exceptions
Exc(cls, msg) == [cls |-> cls, msg |-> msg]

\* the classes an "except ValueError" clause catches: ValueError and its subclasses
ValueErrorClasses == {"ValueError", "UnicodeDecodeError"}
IsValueError(e) == e.cls \in ValueErrorClasses

\* the classes an "except Exception" clause catches
ExceptionClasses == ValueErrorClasses \cup {"FileNotFoundError"}
IsException(e) == e.cls \in ExceptionClasses

NoExc == [cls |-> "none", msg |-> <<>>]

Raised(e) == [ok |-> FALSE, exc |-> e]
Returned(v) == [ok |-> TRUE, value |-> v]

\* ------------------------------------------------------------- environment
\* the tool's configured output directory (config "output_dir", expanded)
OutputDir == <<"/out/">>

Dirs == {<<"/tmp/">>, <<"/out/">>, <<"/home/u/">>, <<"/cwd/">>}

\* contents of a file: what it holds and the source it was made from
Content(kind, src) == [kind |-> kind, src |-> src]

\* the local media files on disk
LocalFiles ==
    (<<"/tmp/", "clip", ".mp4">> :> Content("video", <<"local">>)) @@
    (<<"/home/u/", "clip", ".mp4">> :> Content("video", <<"local">>)) @@
    (<<"/cwd/", "clip", ".mkv">> :> Content("video", <<"local">>))

\* files that may already lie in the output directory at construction
LeftoverNames == {<<"audio", ".mp3">>, <<"clip", ".webm">>, <<"song", ".wav">>}
LeftoverFs(names) == [q \in {Join(OutputDir, n) : n \in names} |-> Content("media", <<"old">>)]

\* ----------------------------------------------------------------- inputs
UrlA == <<"https://", "yt/a">>
UrlB == <<"www.", "yt/b">>
Urls ==
    { None, <<>>, UrlA, UrlB,
      <<"/tmp/", "clip", ".mp4">>,
      <<"/tmp/", "./", "clip", ".mp4">>,
      <<"~/", "clip", ".mp4">>,
      <<"clip", ".mkv">>,
      <<"/tmp/", "gone", ".mp4">>,
      <<"/tmp/">> }
BoolKeys == {Absent, "True", "False"}
Filenames == {None, <<>>, <<"clip", ".mp4">>, <<"clip", ".webm">>, <<"song", ".wav">>}
Timestamps == {None, <<>>, <<"00:00:05">>}

\* the input dicts of execute
Inputs ==
    [ url : Urls, audio_only : BoolKeys, output_filename : Filenames,
      use_cache : BoolKeys, capture_screenshot : BoolKeys,
      screenshot_time : Timestamps ]

NoInput ==
    [ url |-> None, audio_only |-> Absent, output_filename |-> None,
      use_cache |-> Absent, capture_screenshot |-> Absent,
      screenshot_time |-> None ]

\* the invocations of execute; a behaviour of Spec is the one invocation p1 on
\* a tool constructed over any output directory Init allows (the tool keeps
\* nothing between invocations but the files on disk)
Procs == {"p1", "p2"}
SeqProcs == {"p1"}

\* ------------------------------------------------------------------- state
VARIABLES
    fs,             \* the filesystem: path -> contents of the file there
    audio_only,     \* self.audio_only, the configured default
    YT_DLP_AVAILABLE,
    pc,             \* per invocation: where execute stands
    input,          \* per invocation: the input dict
    video_info,     \* per invocation: the VideoInfo load returned
    downloaded_path,
    calls,          \* per invocation: the adapter and library calls made, in order
    raised,         \* per invocation: the exception a step of execute raised
    result          \* per invocation: the ToolResult returned

vars ==
    << fs, audio_only, YT_DLP_AVAILABLE, pc, input, video_info,
       downloaded_path, calls, raised, result >>

NoInfo == [type |-> "none"]
NoResult == [pending |-> TRUE]

Exists(f, p) == Absolute(p) \in DOMAIN f \/ Absolute(p) \in Dirs
IsFile(f, p) == Absolute(p) \in DOMAIN f

Init ==
    /\ \E names \in SUBSET LeftoverNames :
          /\ Cardinality(names) <= MaxLeftover
          /\ fs = LocalFiles @@ LeftoverFs(names)
    /\ audio_only \in {"True", "False"}
    /\ YT_DLP_AVAILABLE \in BOOLEAN
    /\ pc = [p \in Procs |-> "idle"]
    /\ input = [p \in Procs |-> NoInput]
    /\ video_info = [p \in Procs |-> NoInfo]
    /\ downloaded_path = [p \in Procs |-> None]
    /\ calls = [p \in Procs |-> <<>>]
    /\ raised = [p \in Procs |-> NoExc]
    /\ result = [p \in Procs |-> NoResult]

\* ---------------------------------------------------------- VideoLoader
\* VideoInfo(source, type, title, id, duration); description and uploader,
\* which no operation reads, are left out
VideoInfo(source, type, title, id, duration) ==
    [ source |-> source, type |-> type, title |-> title, id |-> id,
      duration |-> duration, audio_path |-> None, video_path |-> None ]

_is_url(source) == StartsWith(source, SchemeToks)

\* what the library's metadata extraction does: returns the info or raises
InfoOutcomes == {"info", "raise"}

_load_from_url(url, ytdlp, lib) ==
    IF ~ytdlp
    THEN Raised(Exc("ValueError", <<"yt-dlp is not installed. Install with: pip install yt-dlp">>))
    ELSE IF lib = "raise"
    THEN Raised(Exc("ValueError", <<"Failed to load URL ">> \o url \o <<": ", "DownloadError">>))
    ELSE Returned(VideoInfo(url, "url", <<"title of ">> \o url, <<"id of ">> \o url, 300))

\* what the ffprobe subprocess does: prints a duration, prints JSON without
\* one, exits non-zero, prints no JSON, is not installed, prints a duration
\* that is no number, prints bytes that do not decode
ProbeOutcomes ==
    {"duration", "nofield", "nonzero", "badjson", "nobinary", "notnumber", "undecodable"}

\* the try block of _load_from_file: the duration, or the exception that
\* leaves it (CalledProcessError, JSONDecodeError and KeyError are caught)
ProbeDuration(probe) ==
    CASE probe = "duration" -> Returned(180)
      [] probe \in {"nofield", "nonzero", "badjson"} -> Returned(0)
      [] probe = "nobinary" -> Raised(Exc("FileNotFoundError", <<"No such file or directory: ", "ffprobe">>))
      [] probe = "notnumber" -> Raised(Exc("ValueError", <<"could not convert string to float">>))
      [] probe = "undecodable" -> Raised(Exc("UnicodeDecodeError", <<"codec can't decode byte">>))

\* source=filepath in place of source=str(path.absolute())
_load_from_file_verbatim(f, filepath, probe) ==
    LET path == ExpandUser(PathOf(filepath))
        d == ProbeDuration(probe)
    IN  IF ~Exists(f, path)
        THEN Raised(Exc("ValueError", <<"File not found: ">> \o filepath))
        ELSE IF ~IsFile(f, path)
        THEN Raised(Exc("ValueError", <<"Not a file: ">> \o filepath))
        ELSE IF ~d.ok THEN d
        ELSE Returned(VideoInfo(filepath, "file", PathStem(path), PathStem(path), d.value))

_load_from_file(f, filepath, probe) ==
    LET path == ExpandUser(PathOf(filepath))
        d == ProbeDuration(probe)
    IN  IF ~Exists(f, path)
        THEN Raised(Exc("ValueError", <<"File not found: ">> \o filepath))
        ELSE IF ~IsFile(f, path)
        THEN Raised(Exc("ValueError", <<"Not a file: ">> \o filepath))
        ELSE IF ~d.ok THEN d
        ELSE Returned(VideoInfo(Absolute(path), "file", PathStem(path), PathStem(path), d.value))

load(f, source, ytdlp, lib, probe) ==
    IF _is_url(source)
    THEN _load_from_url(source, ytdlp, lib)
    ELSE _load_from_file(f, source, probe)

\* "if output_path.exists()" in place of "if use_cache and output_path.exists()"
CacheHitIgnoresFlag(use_cache, output_path, f) == Exists(f, output_path)

\* a download another invocation has in flight is waited for and counts as a hit
CacheHitOrInFlight(use_cache, output_path, f) ==
    IsTrue(use_cache) /\ (Exists(f, output_path) \/ \E q \in Procs : pc[q] \in {"ydl", "locate"})

\* the cache check of download_audio and download_video
CacheHit(use_cache, output_path, f) == IsTrue(use_cache) /\ Exists(f, output_path)

\* the extensions the fallback scan tries, in order
AudioScan == <<".mp3", ".m4a", ".opus", ".wav">>
VideoScan == <<".mp4", ".webm", ".mkv">>

\* the extensions the library may give the file it writes
AudioWritten == {".mp3", ".m4a", ".webm"}
VideoWritten == {".mp4", ".webm", ".flv"}

\* output_dir / f"{output_stem}{ext}"
Possible(output_path, ext) == Join(OutputDir, PathStem(output_path) \o <<ext>>)

\* the first extension of the scan list whose file exists, <<>> when none does
RECURSIVE FirstExisting(_, _, _)
FirstExisting(f, output_path, scan) ==
    IF scan = <<>> THEN <<>>
    ELSE IF Exists(f, Possible(output_path, Head(scan))) THEN <<Head(scan)>>
    ELSE FirstExisting(f, output_path, Tail(scan))

Rename(f, from, to) ==
    (Absolute(to) :> f[Absolute(from)]) @@ [q \in DOMAIN f \ {Absolute(from)} |-> f[q]]

Write(f, path, content) == (Absolute(path) :> content) @@ f

\* -------------------------------------------------------- YouTubeDLTool
\* ToolResult(success=False, error=...)
Failure(error) == [success |-> FALSE, error |-> error]
Success(output) == [success |-> TRUE, output |-> output]

MissingUrlMessage == <<"Missing required parameter: ", "url">>
TimeRequiredMessage == <<"screenshot_time", " required when capture_screenshot is True">>

\* the two validation returns of execute
MissingUrlResult == Failure([message |-> MissingUrlMessage])
TimeRequiredResult == Failure([message |-> TimeRequiredMessage])

\* an exception no except clause of execute catches leaves execute
Escaped(e) == [escaped |-> e]

\* execute with the "except Exception" clause left out
ExceptionResultValueErrorOnly(e) ==
    IF IsValueError(e)
    THEN Failure([message |-> e.msg, type |-> "ValueError"])
    ELSE Escaped(e)

\* execute with both clauses reporting "ValueError"
ExceptionResultOneKind(e) == Failure([message |-> e.msg, type |-> "ValueError"])

\* the two except clauses of execute
ExceptionResult(e) ==
    IF IsValueError(e)
    THEN Failure([message |-> e.msg, type |-> "ValueError"])
    ELSE IF IsException(e)
    THEN Failure([message |-> e.msg, type |-> e.cls])
    ELSE Escaped(e)

\* self.audio_only in place of input.get("audio_only", self.audio_only)
EffectiveAudioOnlyConfigured(inp, configured) == configured

\* input.get("audio_only", self.audio_only)
EffectiveAudioOnly(inp, configured) ==
    IF inp.audio_only = Absent THEN configured ELSE inp.audio_only

\* input.get("use_cache", True)
UseCache(inp) == IF inp.use_cache = Absent THEN "True" ELSE inp.use_cache

\* input.get("capture_screenshot", False)
CaptureScreenshot(inp) ==
    IF inp.capture_screenshot = Absent THEN "False" ELSE inp.capture_screenshot

\* "if url is None" in place of "if not url"
MissingUrlNoneOnly(inp) == inp.url = None

\* "if not url"
MissingUrl(inp) == ~Truthy(inp.url)

\* "screenshot_time is None" in place of "not screenshot_time"
TimeMissingNoneOnly(inp) == IsTrue(CaptureScreenshot(inp)) /\ inp.screenshot_time = None

\* "if capture_screenshot and not screenshot_time"
TimeMissing(inp) == IsTrue(CaptureScreenshot(inp)) /\ ~Truthy(inp.screenshot_time)

\* output_filename or "audio.mp3" / output_filename or "video.mp4"
AudioFilename(inp) ==
    IF Truthy(inp.output_filename) THEN inp.output_filename ELSE <<"audio", ".mp3">>
VideoFilename(inp) ==
    IF Truthy(inp.output_filename) THEN inp.output_filename ELSE <<"video", ".mp4">>

\* the adapter method execute calls for a remote source, and the filename it passes
FetchOp(inp, configured) ==
    IF IsTrue(EffectiveAudioOnly(inp, configured)) THEN "download_audio" ELSE "download_video"
FetchFilename(inp, configured) ==
    IF IsTrue(EffectiveAudioOnly(inp, configured)) THEN AudioFilename(inp) ELSE VideoFilename(inp)

\* output_path of download_audio / download_video
OutputPath(output_dir, output_filename) == Join(ExpandUser(output_dir), output_filename)

\* output_filename.replace(".mp4", ".jpg") if output_filename else "screenshot.jpg"
ScreenshotFilename(inp) ==
    IF Truthy(inp.output_filename)
    THEN StrReplace(inp.output_filename, ".mp4", ".jpg")
    ELSE <<"screenshot", ".jpg">>

\* one entry of the call log
Call(op, source, target, use_cache) ==
    [op |-> op, source |-> source, target |-> target, use_cache |-> use_cache]
SimpleCall(op) == Call(op, None, None, Absent)

Ops(log) == [i \in DOMAIN log |-> log[i].op]

\* execute returns r
Return(p, r) ==
    /\ result' = [result EXCEPT ![p] = r]
    /\ pc' = [pc EXCEPT ![p] = "done"]

\* a first failure of a step is swallowed and the step is tried again
RaiseRetryOnce(p, e) ==
    /\ raised' = [raised EXCEPT ![p] = e]
    /\ IF raised[p] = NoExc
       THEN UNCHANGED <<pc, result>>
       ELSE Return(p, Failure([message |-> e.msg, type |-> e.cls]))

\* a step of execute raises e: lines 130-135
Raise(p, e) ==
    /\ raised' = [raised EXCEPT ![p] = e]
    /\ IF "escaped" \in DOMAIN ExceptionResult(e)
       THEN /\ pc' = [pc EXCEPT ![p] = "raised"]
            /\ UNCHANGED result
       ELSE Return(p, ExceptionResult(e))

\* execute is called: lines 68-84, the two validations
Begin(p, requests) ==
    /\ pc[p] = "idle"
    /\ \E inp \in requests :
          /\ input' = [input EXCEPT ![p] = inp]
          /\ IF MissingUrl(inp) THEN Return(p, MissingUrlResult)
             ELSE IF TimeMissing(inp) THEN Return(p, TimeRequiredResult)
             ELSE /\ pc' = [pc EXCEPT ![p] = "load"]
                  /\ UNCHANGED result
    /\ UNCHANGED <<fs, audio_only, YT_DLP_AVAILABLE, video_info, downloaded_path, calls, raised>>

\* line 88: self.loader.load(url)
Load(p) ==
    /\ pc[p] = "load"
    /\ calls' = [calls EXCEPT ![p] = Append(@, SimpleCall("load"))]
    /\ \E lib \in InfoOutcomes, probe \in ProbeOutcomes :
          LET r == load(fs, input[p].url, YT_DLP_AVAILABLE, lib, probe)
          IN  IF r.ok
              THEN /\ video_info' = [video_info EXCEPT ![p] = r.value]
                   /\ pc' = [pc EXCEPT ![p] = "fetch"]
                   /\ UNCHANGED <<result, raised>>
              ELSE /\ Raise(p, r.exc)
                   /\ UNCHANGED video_info
    /\ UNCHANGED <<fs, audio_only, YT_DLP_AVAILABLE, input, downloaded_path>>

\* the two assignments swapped
RecordedSwapped(info, op, path) ==
    IF op = "download_audio"
    THEN [info EXCEPT !.video_path = path]
    ELSE [info EXCEPT !.audio_path = path]

\* video_info.audio_path = downloaded_path / video_info.video_path = downloaded_path
Recorded(info, op, path) ==
    IF op = "download_audio"
    THEN [info EXCEPT !.audio_path = path]
    ELSE [info EXCEPT !.video_path = path]

\* lines 94-107, up to the cache check of download_audio / download_video
Fetch(p) ==
    /\ pc[p] = "fetch"
    /\ IF video_info[p].type = "url"
       THEN LET op == FetchOp(input[p], audio_only)
                filename == FetchFilename(input[p], audio_only)
                use_cache == UseCache(input[p])
                output_path == OutputPath(OutputDir, filename)
            IN  /\ calls' = [calls EXCEPT ![p] =
                        Append(@, Call(op, input[p].url, filename, use_cache))]
                /\ IF ~YT_DLP_AVAILABLE
                   THEN /\ Raise(p, Exc("ValueError", <<"yt-dlp is not installed">>))
                        /\ UNCHANGED <<video_info, downloaded_path>>
                   ELSE IF CacheHit(use_cache, output_path, fs)
                   THEN /\ downloaded_path' = [downloaded_path EXCEPT ![p] = output_path]
                        /\ video_info' = [video_info EXCEPT ![p] = Recorded(@, op, output_path)]
                        /\ pc' = [pc EXCEPT ![p] = "finish"]
                        /\ UNCHANGED <<result, raised>>
                   ELSE /\ pc' = [pc EXCEPT ![p] = "ydl"]
                        /\ UNCHANGED <<video_info, downloaded_path, result, raised>>
       ELSE /\ downloaded_path' = [downloaded_path EXCEPT ![p] = PathOf(video_info[p].source)]
            /\ pc' = [pc EXCEPT ![p] = "finish"]
            /\ UNCHANGED <<video_info, calls, result, raised>>
    /\ UNCHANGED <<fs, audio_only, YT_DLP_AVAILABLE, input>>

\* what the library's download does: raises, or writes stem + one extension
DownloadOutcomes(op) ==
    {<<"raise">>} \cup
    {<<"written", e>> : e \in (IF op = "download_audio" THEN AudioWritten ELSE VideoWritten)}

FetchKind(op) == IF op = "download_audio" THEN "audio" ELSE "video"
FetchFailed(op) ==
    IF op = "download_audio" THEN "Failed to download audio: " ELSE "Failed to download video: "
FetchNotFound(op) ==
    IF op = "download_audio" THEN "Could not find downloaded audio file"
    ELSE "Could not find downloaded video file"

\* core.py 192-193 / 261-262: ydl.extract_info(url, download=True)
YdlDownload(p) ==
    /\ pc[p] = "ydl"
    /\ calls' = [calls EXCEPT ![p] = Append(@, SimpleCall("ydl_download"))]
    /\ LET op == FetchOp(input[p], audio_only)
           output_path == OutputPath(OutputDir, FetchFilename(input[p], audio_only))
       IN  \E out \in DownloadOutcomes(op) :
              IF out[1] = "raise"
              THEN /\ Raise(p, Exc("ValueError", <<FetchFailed(op), "DownloadError">>))
                   /\ UNCHANGED fs
              ELSE /\ fs' = Write(fs, Possible(output_path, out[2]),
                                  Content(FetchKind(op), input[p].url))
                   /\ pc' = [pc EXCEPT ![p] = "locate"]
                   /\ UNCHANGED <<result, raised>>
    /\ UNCHANGED <<audio_only, YT_DLP_AVAILABLE, input, video_info, downloaded_path>>

\* the filesystem after the fallback scan found the file with extension ext
Located(f, op, output_path, ext) ==
    IF op = "download_audio" \/ ext # ".mp4"
    THEN Rename(f, Possible(output_path, ext), output_path)
    ELSE f

\* core.py 195-210 / 264-279: find the downloaded file, back in execute record it
Locate(p) ==
    /\ pc[p] = "locate"
    /\ LET op == FetchOp(input[p], audio_only)
           output_path == OutputPath(OutputDir, FetchFilename(input[p], audio_only))
           found == FirstExisting(fs, output_path,
                                  IF op = "download_audio" THEN AudioScan ELSE VideoScan)
       IN  IF ~Exists(fs, output_path) /\ found = <<>>
           THEN /\ Raise(p, Exc("ValueError", <<FetchFailed(op), FetchNotFound(op)>>))
                /\ UNCHANGED <<fs, video_info, downloaded_path>>
           ELSE /\ fs' = IF Exists(fs, output_path) THEN fs
                         ELSE Located(fs, op, output_path, found[1])
                /\ downloaded_path' = [downloaded_path EXCEPT ![p] = output_path]
                /\ video_info' = [video_info EXCEPT ![p] = Recorded(@, op, output_path)]
                /\ pc' = [pc EXCEPT ![p] = "finish"]
                /\ UNCHANGED <<result, raised>>
    /\ UNCHANGED <<audio_only, YT_DLP_AVAILABLE, input, calls>>

\* what the ffmpeg subprocess does: exits 0, exits non-zero, is not installed
FfmpegOutcomes == {"ok", "nonzero", "nobinary"}

\* core.py 284-328
capture_screenshot(f, video_path, output_path, ffmpeg) ==
    IF ~Exists(f, ExpandUser(video_path))
    THEN Raised(Exc("ValueError", <<"Video file not found: ">> \o video_path))
    ELSE CASE ffmpeg = "ok" -> Returned(ExpandUser(output_path))
           [] ffmpeg = "nonzero" ->
                Raised(Exc("ValueError", <<"Failed to capture screenshot: ", "CalledProcessError">>))
           [] ffmpeg = "nobinary" ->
                Raised(Exc("FileNotFoundError", <<"No such file or directory: ", "ffmpeg">>))

\* the frame ffmpeg writes over whatever is at output_path
Frame(f, video_path) ==
    Content("image", IF IsFile(f, video_path) THEN f[Absolute(video_path)].src ELSE <<"none">>)

\* lines 109-128: the optional screenshot and the result
Finish(p) ==
    /\ pc[p] = "finish"
    /\ IF IsTrue(CaptureScreenshot(input[p]))
       THEN LET screenshot_output == Join(OutputDir, ScreenshotFilename(input[p]))
            IN  /\ calls' = [calls EXCEPT ![p] = Append(@,
                        Call("capture_screenshot", downloaded_path[p], screenshot_output, Absent))]
                /\ \E ffmpeg \in FfmpegOutcomes :
                      LET r == capture_screenshot(fs, downloaded_path[p], screenshot_output, ffmpeg)
                      IN  IF r.ok
                          THEN /\ fs' = Write(fs, r.value, Frame(fs, downloaded_path[p]))
                               /\ Return(p, Success([path |-> downloaded_path[p],
                                                     metadata |-> video_info[p],
                                                     screenshot_path |-> r.value]))
                               /\ UNCHANGED raised
                          ELSE /\ Raise(p, r.exc)
                               /\ UNCHANGED fs
       ELSE /\ Return(p, Success([path |-> downloaded_path[p], metadata |-> video_info[p]]))
            /\ UNCHANGED <<fs, calls, raised>>
    /\ UNCHANGED <<audio_only, YT_DLP_AVAILABLE, input, video_info, downloaded_path>>

Next ==
    \E p \in SeqProcs :
        \/ Begin(p, Inputs)
        \/ Load(p)
        \/ Fetch(p)
        \/ YdlDownload(p)
        \/ Locate(p)
        \/ Finish(p)

Spec == Init /\ [][Next]_vars

\* two invocations of execute at once (two threads or processes over one
\* output directory), each of them any remote request with use_cache true
RaceInputs ==
    [ url : {UrlA, UrlB}, audio_only : {"True", "False"},
      output_filename : {None, <<"song", ".wav">>},
      use_cache : {"True"}, capture_screenshot : {Absent},
      screenshot_time : {None} ]

RaceNext ==
    \E p \in Procs :
        \/ Begin(p, RaceInputs)
        \/ Load(p)
        \/ Fetch(p)
        \/ YdlDownload(p)
        \/ Locate(p)
        \/ Finish(p)

RaceSpec == Init /\ [][RaceNext]_vars

\* a sequence of invocations on one tool instance: p2 is called after p1 has
\* returned; each is any remote request without a screenshot
SeqInputs ==
    [ url : {UrlA, UrlB}, audio_only : {"True", "False"},
      output_filename : {None, <<"song", ".wav">>},
      use_cache : {Absent, "False"}, capture_screenshot : {Absent},
      screenshot_time : {None} ]

SeqBegin(p) ==
    /\ p = "p2" => pc["p1"] = "done"
    /\ Begin(p, SeqInputs)

SeqNext ==
    \E p \in Procs :
        \/ SeqBegin(p)
        \/ Load(p)
        \/ Fetch(p)
        \/ YdlDownload(p)
        \/ Locate(p)
        \/ Finish(p)

\* the tool is constructed over an output directory that holds nothing yet
SeqInit == Init /\ DOMAIN fs = DOMAIN LocalFiles

SeqSpec == SeqInit /\ [][SeqNext]_vars

\* ------------------------------------------------------------------ claims
Done(p) == pc[p] = "done"
Failed(p) == Done(p) /\ ~result[p].success
Succeeded(p) == Done(p) /\ result[p].success
Mentions(msg, word) == \E i \in DOMAIN msg : msg[i] = word

\* C1: an execute whose input has no url, or an empty one, returns at once a
\* failure whose message names url, whatever the other fields are; no adapter
\* method has been called and the step leaves the filesystem as it was.
C1_MissingUrlRejected ==
    [][\A p \in Procs :
          ( /\ pc[p] = "idle" /\ pc'[p] # "idle"
            /\ input'[p].url \in {None, <<>>} ) =>
          ( /\ pc'[p] = "done"
            /\ ~result'[p].success
            /\ Mentions(result'[p].error.message, "url")
            /\ calls'[p] = <<>>
            /\ fs' = fs )]_vars

\* an empty url with a screenshot and a custom filename requested was rejected
C1_Witness ==
    /\ Failed("p1")
    /\ input["p1"].url = <<>>
    /\ input["p1"].capture_screenshot = "True"
    /\ input["p1"].screenshot_time = <<"00:00:05">>
    /\ input["p1"].output_filename = <<"clip", ".webm">>
    /\ calls["p1"] = <<>>

\* C2: an execute with a non-empty url, capture_screenshot true and no or an
\* empty screenshot_time returns at once a failure saying screenshot_time is
\* required, for a remote and for a local url; no adapter method has been
\* called and the step leaves the filesystem as it was.
C2_TimestampRequired ==
    [][\A p \in Procs :
          ( /\ pc[p] = "idle" /\ pc'[p] # "idle"
            /\ input'[p].url \notin {None, <<>>}
            /\ input'[p].capture_screenshot = "True"
            /\ input'[p].screenshot_time \in {None, <<>>} ) =>
          ( /\ pc'[p] = "done"
            /\ ~result'[p].success
            /\ Mentions(result'[p].error.message, "screenshot_time")
            /\ calls'[p] = <<>>
            /\ fs' = fs )]_vars

\* a screenshot of an existing local file with an empty timestamp was rejected
C2_Witness ==
    /\ Failed("p1")
    /\ input["p1"].url = <<"~/", "clip", ".mp4">>
    /\ input["p1"].capture_screenshot = "True"
    /\ input["p1"].screenshot_time = <<>>
    /\ Mentions(result["p1"].error.message, "screenshot_time")
    /\ calls["p1"] = <<>>

\* C3: whatever load, the fetch and capture_screenshot do (return, raise a
\* ValueError, raise another exception), no exception leaves execute: once a
\* step has raised, execute has returned, and what it returns is a ToolResult
\* (success or failure).
C3_AlwaysReturns ==
    \A p \in Procs :
        /\ pc[p] # "raised"
        /\ raised[p] # NoExc => Done(p)
        /\ Done(p) => /\ "success" \in DOMAIN result[p]
                      /\ result[p].success \in BOOLEAN

\* ffmpeg was missing after a fetch: a FileNotFoundError became a failure result
C3_Witness ==
    /\ Failed("p1")
    /\ raised["p1"].cls = "FileNotFoundError"
    /\ Ops(calls["p1"]) = <<"load", "download_video", "ydl_download", "capture_screenshot">>

\* C4: when load, the fetch or capture_screenshot raised, the result is a
\* failure whose message is the exception's and whose type is "ValueError"
\* for a ValueError (or a subclass of it) and the class name for any other.
C4_ExceptionMapped ==
    \A p \in Procs :
        (Done(p) /\ raised[p] # NoExc) =>
            /\ ~result[p].success
            /\ result[p].error.message = raised[p].msg
            /\ result[p].error.type =
                 IF raised[p].cls \in {"ValueError", "UnicodeDecodeError"}
                 THEN "ValueError" ELSE raised[p].cls

\* load raised FileNotFoundError (no ffprobe) and the result says so
C4_Witness ==
    /\ Failed("p1")
    /\ raised["p1"].cls = "FileNotFoundError"
    /\ result["p1"].error.type = "FileNotFoundError"
    /\ Ops(calls["p1"]) = <<"load">>

\* C5: every failure result execute returns carries a message and a type.
C5_FailureHasMessageAndKind ==
    \A p \in Procs :
        Failed(p) => {"message", "type"} \subseteq DOMAIN result[p].error

\* how often execute called op
Times(p, op) == Cardinality({i \in DOMAIN calls[p] : calls[p][i].op = op})

\* the audio_only the request asks for: its own when it has one, else the configured
Requested(p) == IF input[p].audio_only # Absent THEN input[p].audio_only ELSE audio_only

\* C6: for a remote source whose load succeeded, the request's audio_only,
\* when the input has one, decides the fetch whatever the configured default
\* is, and the default decides when the input has none: true means
\* download_audio is called once and download_video never, false the reverse.
C6_RequestOverridesConfig ==
    \A p \in Procs :
        (pc[p] \in {"ydl", "locate", "finish", "done"} /\ video_info[p].type = "url") =>
            IF Requested(p) = "True"
            THEN Times(p, "download_audio") = 1 /\ Times(p, "download_video") = 0
            ELSE Times(p, "download_video") = 1 /\ Times(p, "download_audio") = 0

\* audio_only=False on a tool configured for audio fetched the video
C6_Witness ==
    /\ Succeeded("p1")
    /\ audio_only = "True"
    /\ input["p1"].audio_only = "False"
    /\ Ops(calls["p1"]) = <<"load", "download_video", "ydl_download">>

AudioExts == {".mp3", ".m4a", ".opus", ".wav"}
NoFilename(p) == input[p].output_filename \in {None, <<>>}

\* a successful execute on a remote source with effective audio_only true
RemoteAudioSuccess(p) ==
    /\ Succeeded(p)
    /\ result[p].output.metadata.type = "url"
    /\ Requested(p) = "True"

\* C7 as claimed: after a successful audio fetch of a remote source, for every
\* requested output_filename, the result path ends in an audio extension,
\* metadata.audio_path is the result path and metadata.video_path is unset.
C7_AudioPathHasAudioExtension ==
    \A p \in Procs :
        RemoteAudioSuccess(p) =>
            LET path == result[p].output.path
            IN  /\ path[Len(path)] \in AudioExts
                /\ result[p].output.metadata.audio_path = path
                /\ result[p].output.metadata.video_path = None

\* C7 amended: after a successful audio fetch of a remote source the result
\* path is the output directory joined with the requested output_filename,
\* whatever its extension, and with audio.mp3 (so ending in .mp3) when none
\* or an empty one is requested; metadata.audio_path is the result path and
\* metadata.video_path is unset.
C7_AudioPathIsRequestedName ==
    \A p \in Procs :
        RemoteAudioSuccess(p) =>
            LET path == result[p].output.path
            IN  /\ path = OutputDir \o
                     (IF NoFilename(p) THEN <<"audio", ".mp3">> ELSE input[p].output_filename)
                /\ NoFilename(p) => path[Len(path)] = ".mp3"
                /\ result[p].output.metadata.audio_path = path
                /\ result[p].output.metadata.video_path = None

\* an audio fetch into song.wav succeeded: the library's song.mp3 was renamed
C7_Witness ==
    /\ RemoteAudioSuccess("p1")
    /\ input["p1"].output_filename = <<"song", ".wav">>
    /\ result["p1"].output.path = <<"/out/", "song", ".wav">>
    /\ Times("p1", "ydl_download") = 1
    /\ fs[<<"/out/", "song", ".wav">>].kind = "audio"
    /\ <<"/out/", "song", ".mp3">> \notin DOMAIN fs

\* C8: execute passes the request's use_cache (True when the input has none)
\* and output_filename (audio.mp3 / video.mp4 when it has none) to
\* download_audio / download_video as they are; there the library's download is
\* called exactly when it is not the case that use_cache is true and a file
\* exists at output_dir/output_filename: on a hit the existing path is
\* returned, nothing is downloaded and the filesystem stays as it was, and with
\* use_cache false the download is called although the file exists.
C8_DownloadUnlessCached ==
    [][\A p \in Procs :
          /\ (pc[p] = "fetch" /\ pc'[p] # "fetch" /\ video_info[p].type = "url") =>
                LET op == IF Requested(p) = "True" THEN "download_audio" ELSE "download_video"
                    filename == IF ~NoFilename(p) THEN input[p].output_filename
                                ELSE IF op = "download_audio" THEN <<"audio", ".mp3">>
                                ELSE <<"video", ".mp4">>
                    use_cache == IF input[p].use_cache = Absent THEN "True"
                                 ELSE input[p].use_cache
                    path == OutputDir \o filename
                    hit == use_cache = "True" /\ path \in DOMAIN fs
                IN  /\ calls'[p] = Append(calls[p], Call(op, input[p].url, filename, use_cache))
                    /\ hit => /\ pc'[p] = "finish"
                              /\ downloaded_path'[p] = path
                              /\ fs' = fs
                    /\ ~hit => pc'[p] = "ydl"
          /\ pc[p] = "ydl" => Times(p, "ydl_download") = 0
          /\ (pc[p] = "ydl" /\ pc'[p] # "ydl") =>
                calls'[p] = Append(calls[p], SimpleCall("ydl_download"))
          /\ pc[p] # "ydl" => Ops(calls'[p]) \in {Ops(calls[p])} \cup
                {Append(Ops(calls[p]), o) : o \in {"load", "download_audio", "download_video", "capture_screenshot"}}
      ]_vars

\* a video fetch found clip.webm in the output directory and downloaded nothing
C8_Witness ==
    /\ Succeeded("p1")
    /\ input["p1"].use_cache = Absent
    /\ calls["p1"] = << SimpleCall("load"),
                        Call("download_video", UrlA, <<"clip", ".webm">>, "True") >>
    /\ result["p1"].output.path = <<"/out/", "clip", ".webm">>
    /\ fs[<<"/out/", "clip", ".webm">>].src = <<"old">>

\* a successful execute on a source that load resolved as a local file
LocalSuccess(p) == Succeeded(p) /\ result[p].output.metadata.type = "file"

NoFetch(p) ==
    /\ Times(p, "download_audio") = 0
    /\ Times(p, "download_video") = 0
    /\ Times(p, "ydl_download") = 0

\* C9 as claimed: for a source that resolves as a local file (absolute,
\* relative or home-relative), whatever audio_only and use_cache are, the
\* descriptor is of type file with id and title the filename stem, nothing is
\* fetched, and the result path is the input url verbatim.
C9_LocalPathVerbatim ==
    \A p \in Procs :
        LocalSuccess(p) =>
            /\ result[p].output.metadata.id = PathStem(input[p].url)
            /\ result[p].output.metadata.title = PathStem(input[p].url)
            /\ NoFetch(p)
            /\ result[p].output.path = input[p].url

\* C9 amended: for such a source the descriptor is of type file with id and
\* title the filename stem, nothing is fetched, and the result path is the
\* input url made absolute: "~" expanded to the home directory, "." components
\* dropped, the working directory put before a relative path; it is the input
\* verbatim when the input is an absolute path without "." components.
C9_LocalPathAbsolute ==
    \A p \in Procs :
        LocalSuccess(p) =>
            LET url == input[p].url
                plain == SelectSeq(url, LAMBDA t : t # "./")
                home == IF plain[1] = "~/" THEN <<"/home/u/">> \o Tail(plain) ELSE plain
                abs == IF home[1] \in {"/tmp/", "/out/", "/home/u/", "/cwd/"}
                       THEN home ELSE <<"/cwd/">> \o home
            IN  /\ result[p].output.metadata.id = PathStem(url)
                /\ result[p].output.metadata.title = PathStem(url)
                /\ NoFetch(p)
                /\ result[p].output.path = abs
                /\ result[p].output.metadata.source = abs
                /\ (abs = url) => result[p].output.path = url

\* ~/clip.mp4 with audio_only true and use_cache false resolved as a local file
C9_Witness ==
    /\ LocalSuccess("p1")
    /\ input["p1"].url = <<"~/", "clip", ".mp4">>
    /\ input["p1"].audio_only = "True"
    /\ input["p1"].use_cache = "False"
    /\ result["p1"].output.path = <<"/home/u/", "clip", ".mp4">>
    /\ result["p1"].output.metadata.id = <<"clip">>

\* C10: after a successful execute that fetched the video and was asked for a
\* screenshot with a timestamp, for every requested output_filename, the
\* result has a screenshot_path different from the media file path.
C10_ScreenshotPathDistinct ==
    \A p \in Procs :
        ( /\ Succeeded(p)
          /\ Times(p, "download_video") = 1
          /\ input[p].capture_screenshot = "True" ) =>
            /\ "screenshot_path" \in DOMAIN result[p].output
            /\ result[p].output.screenshot_path # result[p].output.path

\* a fetch of a remote source has returned a path to execute
FetchReturned(p) == pc[p] = "finish" /\ video_info[p].type = "url"

\* C11: whenever download_audio or download_video has returned a path (from
\* the cache check, the check after the download, or the scan of the
\* alternate extensions), for every output_filename and every extension the
\* library wrote, a file exists at the returned path.
C11_ReturnedPathExists ==
    \A p \in Procs :
        FetchReturned(p) => Exists(fs, downloaded_path[p])

\* C12: load of a local source that exists and is a regular file succeeds
\* whatever the duration probe does (no binary, non-zero exit, unparseable
\* output, duration absent or not a number), and a probe that yields no
\* duration leaves duration 0: the step never raises.
C12_ProbeFailureNotFatal ==
    [][\A p \in Procs :
          ( /\ pc[p] = "load" /\ pc'[p] # "load"
            /\ ~StartsWith(input[p].url, {"https://", "http://", "www."})
            /\ IsFile(fs, ExpandUser(input[p].url)) ) =>
          ( /\ pc'[p] = "fetch"
            /\ raised'[p] = NoExc
            /\ video_info'[p].type = "file"
            /\ video_info'[p].duration \in {0, 180} )]_vars

\* the adapter methods execute called, in order
Steps(log) == SelectSeq(Ops(log), LAMBDA o : o # "ydl_download")

\* the call sequences of a single linear pass: load, then one fetch (remote
\* sources only), then capture_screenshot
LinearPasses ==
    { <<>>, <<"load">>, <<"load", "capture_screenshot">> } \cup
    UNION { { <<"load", f>>, <<"load", f, "capture_screenshot">> } :
            f \in {"download_audio", "download_video"} }

\* C13: within one execute, load, the fetch and capture_screenshot are each
\* called at most once and only in that order, and the library's download at
\* most once; once a step has raised nothing more is called and the result is
\* a failure; a success is returned only when load, the fetch of a remote
\* source and the requested screenshot have all been called and none raised.
C13_LinearNoRetry ==
    [][\A p \in Procs :
          /\ Steps(calls'[p]) \in LinearPasses
          /\ Cardinality({i \in DOMAIN calls'[p] : calls'[p][i].op = "ydl_download"}) <= 1
          /\ raised'[p] # NoExc => pc'[p] = "done" /\ ~result'[p].success
          /\ raised[p] # NoExc => calls'[p] = calls[p] /\ result'[p] = result[p]
          /\ (pc'[p] = "done" /\ result'[p].success) =>
                LET out == result'[p].output
                    steps == Steps(calls'[p])
                IN  /\ raised'[p] = NoExc
                    /\ steps # <<>> /\ steps[1] = "load"
                    /\ out.metadata.type = "url" =>
                          Len(steps) >= 2 /\ steps[2] \in {"download_audio", "download_video"}
                    /\ input'[p].capture_screenshot = "True" =>
                          /\ steps[Len(steps)] = "capture_screenshot"
                          /\ "screenshot_path" \in DOMAIN out
                    /\ input'[p].capture_screenshot # "True" =>
                          steps[Len(steps)] # "capture_screenshot"
      ]_vars

\* the download raised with a screenshot requested: execute failed without
\* calling capture_screenshot
C13_Witness ==
    /\ Failed("p1")
    /\ input["p1"].capture_screenshot = "True"
    /\ input["p1"].screenshot_time = <<"00:00:05">>
    /\ raised["p1"].cls = "ValueError"
    /\ Ops(calls["p1"]) = <<"load", "download_audio", "ydl_download">>

\* the path a remote request targets: output_dir/output_filename, with
\* audio.mp3 / video.mp4 when the request names none
Target(p) ==
    OutputDir \o (IF ~NoFilename(p) THEN input[p].output_filename
                  ELSE IF Requested(p) = "True" THEN <<"audio", ".mp3">>
                  ELSE <<"video", ".mp4">>)

\* the invocation is between its existence check and the end of its download
InFlight(p) == pc[p] \in {"ydl", "locate"}

\* C14: invocations are not coordinated: while one invocation is between its
\* existence check and the end of its download, another one with use_cache
\* true and the same target that reaches its own check while the target is
\* still absent is neither held back nor served from the first one's
\* download; it goes on to invoke the library's download itself.
C14_NoCoordination ==
    [][\A p, q \in Procs :
          ( /\ p # q
            /\ InFlight(q)
            /\ pc[p] = "fetch" /\ pc'[p] # "fetch"
            /\ video_info[p].type = "url"
            /\ YT_DLP_AVAILABLE
            /\ input[p].use_cache = "True"
            /\ Target(p) = Target(q)
            /\ Target(p) \notin DOMAIN fs ) =>
          ( /\ pc'[p] = "ydl"
            /\ raised'[p] = NoExc
            /\ InFlight(q)' )]_vars

\* both invocations, for different sources and with use_cache true, found
\* song.wav absent, both called the download and both returned song.wav,
\* which holds one source's audio only
C14_Witness ==
    /\ Succeeded("p1") /\ Succeeded("p2")
    /\ input["p1"].url = UrlA /\ input["p2"].url = UrlB
    /\ input["p1"].use_cache = "True" /\ input["p2"].use_cache = "True"
    /\ Ops(calls["p1"]) = <<"load", "download_audio", "ydl_download">>
    /\ Ops(calls["p2"]) = <<"load", "download_audio", "ydl_download">>
    /\ result["p1"].output.path = <<"/out/", "song", ".wav">>
    /\ result["p2"].output.path = <<"/out/", "song", ".wav">>
    /\ <<"/out/", "song", ".wav">> \in DOMAIN fs

\* C15: in a sequence of invocations, when execute returns a success for a
\* remote source, the file at the result path was made by a fetch of the
\* source the result's metadata names and of the requested kind (audio or
\* video): it is not one downloaded for another source or left there before.
C15_ResultFileIsOfRequestedSource ==
    [][\A p \in Procs :
          ( /\ pc[p] # "done" /\ pc'[p] = "done"
            /\ result'[p].success
            /\ result'[p].output.metadata.type = "url"
            /\ result'[p].output.path \in DOMAIN fs' ) =>
          LET file == fs'[result'[p].output.path]
          IN  /\ file.src = result'[p].output.metadata.source
              /\ file.kind = IF Requested(p) = "True" THEN "audio" ELSE "video" ]_vars
====
